---- MODULE Spec2Model ----
(***************************************************************************)
(* A model of the limiter package (src/limiter.go, src/options.go).        *)
(*                                                                         *)
(* One Limiter value is shared by NumCallers caller goroutines, the decay  *)
(* goroutine started by New, and one polling goroutine per Wait call.      *)
(* A goroutine's steps are cut at its blocking points (Lock, RLock, the    *)
(* selects) and, inside Allow, between the test and the increment.  A     *)
(* read-locked section that ends with RUnlock is one step.  sync.RWMutex  *)
(* is modelled by the set of read holders, the write flag and the rule    *)
(* that a pending Lock() blocks new RLock() calls.                        *)
(* Limit is uint64 in the source; the model keeps the wrap-around          *)
(* arithmetic at a width of LimitBits bits.                                *)
(***************************************************************************)
EXTENDS Integers, FiniteSets, Sequences, TLC

\* ---------------------------------------------------------------- bounds
NumCallers == 2
MaxWaits == 2
MaxLimit == 2
LimitBits == 3

\* ------------------------------------------------------ program constants
Modulus == 2 ^ LimitBits
Infinite == Modulus - 1
defaultInterval == 3600

Callers == 1 .. NumCallers
WaitIds == 1 .. MaxWaits
Limits == (0 .. MaxLimit) \cup {Infinite}
Intervals == {defaultInterval}

VARIABLES
    limit,            \* Limiter.limit
    current,          \* Limiter.current
    interval,         \* Limiter.interval, in seconds
    gradualRecovery,  \* Limiter.gradualRecovery
    done,             \* TRUE once the channel Limiter.done is closed
    readers,          \* holders of Limiter.mu's read lock
    writer,           \* TRUE while Limiter.mu is write-locked
    dpc,              \* position of cleanupLimitAfterInterval
    repair,           \* its local variable repair
    subInterval,      \* its local variable interval
    armed,            \* the duration its pending time.After was called with
    decays,           \* number of cleanupLimitAfterInterval goroutines started
    pc,               \* position of each caller
    op,               \* the method a caller is in, or has last returned from
    ret,              \* the boolean a caller's last Allow or Wait returned
    val,              \* the Limit a caller's last Current returned
    allow,            \* Allow's local variable allow
    ctxDone,          \* TRUE once ctx.Done() of the caller's Wait is closed
    wid,              \* the polling goroutine of the caller's Wait call
    ppc,              \* position of each polling goroutine
    allowCh,          \* TRUE while Wait's channel allow holds a value
    nWaits,           \* number of Wait calls made so far
    panicked,         \* TRUE once a goroutine has panicked (the process dies)
    admitted,         \* history: Allow bodies that incremented since the last tick
    fresh,            \* history: a tick has run and no Allow body since
    tickSat,          \* history: the last tick found l.current >= l.limit
    quiet             \* history: per caller, saturated at Wait's call, no tick since

vars == << limit, current, interval, gradualRecovery, done, readers, writer,
           dpc, repair, subInterval, armed, decays, pc, op, ret, val, allow,
           ctxDone, wid,
           ppc, allowCh, nWaits, panicked, admitted, fresh, tickSat, quiet >>

config == << limit, interval, gradualRecovery >>
mutex == << readers, writer >>
decayTask == << dpc, repair, subInterval, armed >>
decayVars == << decayTask, decays >>
callerVars == << pc, op, ret, val, allow, ctxDone, wid >>
pollVars == << ppc, allowCh, nWaits >>
history == << admitted, fresh, tickSat, quiet >>

\* ------------------------------------------------------------ arithmetic
\* uint64 subtraction, at the model's width
SubLimit(a, b) == (a - b) % Modulus

\* uint64 increment, at the model's width
IncLimit(a) == (a + 1) % Modulus

\* int(x) of a Limit: two's complement reinterpretation
ToInt(v) == IF v >= Modulus \div 2 THEN v - Modulus ELSE v

Abs(a) == IF a < 0 THEN -a ELSE a

\* Go's integer division truncates towards zero
GoDiv(a, b) ==
    LET q == Abs(a) \div Abs(b)
    IN  IF (a < 0) # (b < 0) THEN -q ELSE q

\* ------------------------------------------------------------ sync.RWMutex
Poller(w) == << "poller", w >>

\* a goroutine is blocked in Lock(): it has announced itself to the readers
WriterPending == dpc = "lock" \/ \E p \in Callers : pc[p] = "lock"

\* RLock() returns when no writer holds the lock or waits for it
CanRLock == ~writer /\ ~WriterPending

\* Lock() returns once no goroutine holds the lock in either mode
CanLockMutant == TRUE
CanLock == ~writer /\ readers = {}

Running == ~panicked

\* the number of cleanupLimitAfterInterval goroutines an operation starts:
\* New has the only go statement for it, whatever Allow's comment says
StartedMutant(m) == IF m \in {"New", "Allow"} THEN 1 ELSE 0

Started(m) == IF m = "New" THEN 1 ELSE 0

\* ------------------------------------------------------------------- New
Init ==
    /\ limit \in Limits
    /\ interval \in Intervals
    /\ gradualRecovery \in BOOLEAN
    /\ current = 0
    /\ done = FALSE
    /\ readers = {}
    /\ writer = FALSE
    /\ dpc = "start"
    /\ repair = 0
    /\ subInterval = 0
    /\ armed = 0
    /\ decays = Started("New")
    /\ pc = [p \in Callers |-> "idle"]
    /\ op = [p \in Callers |-> "none"]
    /\ ret = [p \in Callers |-> FALSE]
    /\ val = [p \in Callers |-> 0]
    /\ allow = [p \in Callers |-> FALSE]
    /\ ctxDone = [p \in Callers |-> FALSE]
    /\ wid = [p \in Callers |-> 0]
    /\ ppc = [w \in WaitIds |-> "unborn"]
    /\ allowCh = [w \in WaitIds |-> FALSE]
    /\ nWaits = 0
    /\ panicked = FALSE
    /\ admitted = 0
    /\ fresh = FALSE
    /\ tickSat = FALSE
    /\ quiet = [p \in Callers |-> FALSE]

\* ----------------------------------------------------------------- Allow
\* a caller invokes Allow() and blocks in l.mu.Lock()
AllowCall(p) ==
    /\ Running
    /\ pc[p] = "idle"
    /\ pc' = [pc EXCEPT ![p] = "lock"]
    /\ op' = [op EXCEPT ![p] = "Allow"]
    /\ decays' = decays + Started("Allow")
    /\ ret' = [ret EXCEPT ![p] = FALSE]
    /\ val' = [val EXCEPT ![p] = 0]
    /\ ctxDone' = [ctxDone EXCEPT ![p] = FALSE]
    /\ quiet' = [quiet EXCEPT ![p] = FALSE]
    /\ UNCHANGED << current, done, config, mutex, decayTask, allow, wid,
                    pollVars, panicked, admitted, fresh, tickSat >>

\* the switch of Allow: case l.current < l.limit
AllowSwitchMutant(c, l) == c <= l
AllowSwitch(c, l) == c < l

\* l.mu.Lock() returns, in Allow called directly or from Wait, and the
\* switch sets allow
AllowAcquire(p) ==
    /\ Running
    /\ pc[p] = "lock"
    /\ CanLock
    /\ writer' = TRUE
    /\ allow' = [allow EXCEPT ![p] = AllowSwitch(current, limit)]
    /\ pc' = [pc EXCEPT ![p] = "incr"]
    /\ UNCHANGED << current, done, config, readers, decayVars, op, ret, val,
                    ctxDone, wid, pollVars, panicked, history >>

\* if allow { l.current++ }; return allow, with the deferred l.mu.Unlock()
AllowIncr(p) ==
    /\ Running
    /\ pc[p] = "incr"
    /\ current' = IF allow[p] THEN IncLimit(current) ELSE current
    /\ admitted' = IF allow[p] THEN admitted + 1 ELSE admitted
    /\ fresh' = FALSE
    /\ ret' = [ret EXCEPT ![p] = allow[p]]
    /\ allow' = [allow EXCEPT ![p] = FALSE]
    /\ writer' = FALSE
    /\ pc' = [pc EXCEPT ![p] = "idle"]
    /\ UNCHANGED << done, config, readers, decayVars, op, val, ctxDone, wid,
                    pollVars, panicked, tickSat, quiet >>

\* --------------------------------------------------------------- Current
\* a caller invokes Current() and blocks in l.mu.RLock()
CurrentCall(p) ==
    /\ Running
    /\ pc[p] = "idle"
    /\ pc' = [pc EXCEPT ![p] = "rlock"]
    /\ op' = [op EXCEPT ![p] = "Current"]
    /\ decays' = decays + Started("Current")
    /\ ret' = [ret EXCEPT ![p] = FALSE]
    /\ val' = [val EXCEPT ![p] = 0]
    /\ ctxDone' = [ctxDone EXCEPT ![p] = FALSE]
    /\ quiet' = [quiet EXCEPT ![p] = FALSE]
    /\ UNCHANGED << current, done, config, mutex, decayTask, allow, wid,
                    pollVars, panicked, admitted, fresh, tickSat >>

\* l.mu.RLock() returns; return l.current, with the deferred l.mu.RUnlock()
CurrentRead(p) ==
    /\ Running
    /\ pc[p] = "rlock"
    /\ CanRLock
    /\ val' = [val EXCEPT ![p] = current]
    /\ pc' = [pc EXCEPT ![p] = "idle"]
    /\ UNCHANGED << current, done, config, mutex, decayVars, op, ret, allow,
                    ctxDone, wid, pollVars, panicked, history >>

\* ------------------------------------------------------------------ Wait
\* a caller invokes Wait(ctx): the channel allow is made, the polling
\* goroutine is started and the caller blocks in the select.  fired says
\* whether ctx is already cancelled.
WaitCall(p, fired) ==
    /\ Running
    /\ pc[p] = "idle"
    /\ nWaits < MaxWaits
    /\ nWaits' = nWaits + 1
    /\ ppc' = [ppc EXCEPT ![nWaits + 1] = "poll"]
    /\ wid' = [wid EXCEPT ![p] = nWaits + 1]
    /\ ctxDone' = [ctxDone EXCEPT ![p] = fired]
    /\ pc' = [pc EXCEPT ![p] = "select"]
    /\ op' = [op EXCEPT ![p] = "Wait"]
    /\ decays' = decays + Started("Wait")
    /\ ret' = [ret EXCEPT ![p] = FALSE]
    /\ val' = [val EXCEPT ![p] = 0]
    /\ quiet' = [quiet EXCEPT ![p] = (current >= limit)]
    /\ UNCHANGED << current, done, config, mutex, decayTask, allow, allowCh,
                    panicked, admitted, fresh, tickSat >>

\* the caller's context is cancelled while its Wait is in the select
Cancel(p) ==
    /\ Running
    /\ pc[p] = "select"
    /\ ~ctxDone[p]
    /\ ctxDone' = [ctxDone EXCEPT ![p] = TRUE]
    /\ UNCHANGED << current, done, config, mutex, decayVars, pc, op, ret, val,
                    allow, wid, pollVars, panicked, history >>

\* case <-ctx.Done(): return false
WaitCtxDone(p) ==
    /\ Running
    /\ pc[p] = "select"
    /\ ctxDone[p]
    /\ ret' = [ret EXCEPT ![p] = FALSE]
    /\ wid' = [wid EXCEPT ![p] = 0]
    /\ pc' = [pc EXCEPT ![p] = "idle"]
    /\ UNCHANGED << current, done, config, mutex, decayVars, op, val, allow,
                    ctxDone, pollVars, panicked, history >>

\* case <-allow: return l.Allow(); the caller blocks in Allow's l.mu.Lock()
WaitAllowed(p) ==
    /\ Running
    /\ pc[p] = "select"
    /\ allowCh[wid[p]]
    /\ allowCh' = [allowCh EXCEPT ![wid[p]] = FALSE]
    /\ wid' = [wid EXCEPT ![p] = 0]
    /\ pc' = [pc EXCEPT ![p] = "lock"]
    /\ UNCHANGED << current, done, config, mutex, decayVars, op, ret, val,
                    allow, ctxDone, ppc, nWaits, panicked, history >>

\* case <-l.done: return false
WaitClosed(p) ==
    /\ Running
    /\ pc[p] = "select"
    /\ done
    /\ ret' = [ret EXCEPT ![p] = FALSE]
    /\ wid' = [wid EXCEPT ![p] = 0]
    /\ pc' = [pc EXCEPT ![p] = "idle"]
    /\ UNCHANGED << current, done, config, mutex, decayVars, op, val, allow,
                    ctxDone, pollVars, panicked, history >>

\* -------------------------------------------- Wait's polling goroutine
\* the read lock as the polling goroutine leaves it when it breaks out of
\* the loop: the break skips l.mu.RUnlock()
AfterBreak(w) == readers \cup {Poller(w)}

\* the test of the polling loop: if l.current < l.limit
PollSwitchMutant(c, l) == c <= l
PollSwitch(c, l) == c < l

\* one round of the loop.  l.mu.RLock() returns; if l.current < l.limit
\* then allow <- struct{}{}, break and the deferred close(allow);
\* otherwise l.mu.RUnlock() and the loop goes round
Poll(w) ==
    /\ Running
    /\ ppc[w] = "poll"
    /\ CanRLock
    /\ IF PollSwitch(current, limit)
       THEN /\ allowCh' = [allowCh EXCEPT ![w] = TRUE]
            /\ ppc' = [ppc EXCEPT ![w] = "exit"]
            /\ readers' = AfterBreak(w)
       ELSE UNCHANGED << allowCh, ppc, readers >>
    /\ UNCHANGED << current, done, config, writer, decayVars, callerVars,
                    nWaits, panicked, history >>

\* ----------------------------------------------------------------- Close
CloseMutant ==
    /\ Running
    /\ IF done
       THEN panicked' = TRUE /\ UNCHANGED << done, current >>
       ELSE done' = TRUE /\ current' = 0 /\ UNCHANGED panicked
    /\ decays' = decays + Started("Close")
    /\ UNCHANGED << config, mutex, decayTask, callerVars, pollVars, history >>

\* close(l.done); closing a closed channel panics
Close ==
    /\ Running
    /\ IF done
       THEN panicked' = TRUE /\ UNCHANGED done
       ELSE done' = TRUE /\ UNCHANGED panicked
    /\ decays' = decays + Started("Close")
    /\ UNCHANGED << current, config, mutex, decayTask, callerVars, pollVars,
                    history >>

\* --------------------------------------------- cleanupLimitAfterInterval
\* the argument of time.After in the loop's select: l.interval
TimerDuration == interval

\* the prologue: interval and repair are read under the read lock, then
\* the gradual-recovery period is computed; the division panics on zero.
\* The task then enters the loop and its select arms the first timer.
DecayStart ==
    /\ Running
    /\ dpc = "start"
    /\ CanRLock
    /\ IF gradualRecovery
       THEN IF ToInt(limit) = 0
            THEN /\ panicked' = TRUE
                 /\ UNCHANGED << dpc, repair, subInterval, armed >>
            ELSE /\ subInterval' = GoDiv(interval, ToInt(limit))
                 /\ repair' = 1
                 /\ dpc' = "select"
                 /\ armed' = TimerDuration
                 /\ UNCHANGED panicked
       ELSE /\ subInterval' = interval
            /\ repair' = limit
            /\ dpc' = "select"
            /\ armed' = TimerDuration
            /\ UNCHANGED panicked
    /\ UNCHANGED << current, done, config, mutex, decays, callerVars,
                    pollVars, history >>

\* case <-time.After(l.interval): the timer has fired and the select takes
\* it; the task blocks in l.mu.Lock()
DecayTimer ==
    /\ Running
    /\ dpc = "select"
    /\ dpc' = "lock"
    /\ UNCHANGED << current, done, config, mutex, repair, subInterval, armed,
                    decays, callerVars, pollVars, panicked, history >>

\* case <-l.done: return
DecayClosed ==
    /\ Running
    /\ dpc = "select"
    /\ done
    /\ dpc' = "exit"
    /\ UNCHANGED << current, done, config, mutex, repair, subInterval, armed,
                    decays, callerVars, pollVars, panicked, history >>

\* l.current -= repair; if l.current < 0 { l.current = 0 }, on uint64
GradualStep(c, r) ==
    LET d == SubLimit(c, r)
    IN  IF d < 0 THEN 0 ELSE d

\* the value of l.current after one tick
DecayedMutant(c) == IF gradualRecovery THEN 0 ELSE GradualStep(c, 1)
Decayed(c) == IF gradualRecovery THEN GradualStep(c, repair) ELSE 0

\* l.mu.Lock() returns; the body of the timer case, with l.mu.Unlock();
\* the next round of the loop arms a new timer
DecayTick ==
    /\ Running
    /\ dpc = "lock"
    /\ CanLock
    /\ current' = Decayed(current)
    /\ dpc' = "select"
    /\ admitted' = 0
    /\ fresh' = TRUE
    /\ tickSat' = (current >= limit)
    /\ quiet' = [p \in Callers |-> FALSE]
    /\ armed' = TimerDuration
    /\ UNCHANGED << done, config, mutex, repair, subInterval, decays,
                    callerVars, pollVars, panicked >>

\* ------------------------------------------------------------------ Next
Next ==
    \/ \E p \in Callers : AllowCall(p)
    \/ \E p \in Callers : AllowAcquire(p)
    \/ \E p \in Callers : AllowIncr(p)
    \/ \E p \in Callers : CurrentCall(p)
    \/ \E p \in Callers : CurrentRead(p)
    \/ \E p \in Callers, fired \in BOOLEAN : WaitCall(p, fired)
    \/ \E p \in Callers : Cancel(p)
    \/ \E p \in Callers : WaitCtxDone(p)
    \/ \E p \in Callers : WaitAllowed(p)
    \/ \E p \in Callers : WaitClosed(p)
    \/ \E w \in WaitIds : Poll(w)
    \/ Close
    \/ DecayStart
    \/ DecayTimer
    \/ DecayClosed
    \/ DecayTick

Spec == Init /\ [][Next]_vars

\* Scheduling.  Every goroutine that can take a step takes one (the Go
\* scheduler is preemptive); a goroutine blocked in Lock or RLock gets the
\* lock if it is free again and again (the mutex queues its waiters); a
\* select whose case is ready proceeds, and picks a case that stays ready
\* after finitely many rounds; the timer of time.After fires.  Calls,
\* cancellations and Close are the environment's and are not forced.
Fairness ==
    /\ \A p \in Callers :
          /\ SF_vars(AllowAcquire(p))
          /\ WF_vars(AllowIncr(p))
          /\ SF_vars(CurrentRead(p))
          /\ WF_vars(WaitCtxDone(p) \/ WaitAllowed(p) \/ WaitClosed(p))
    /\ \A w \in WaitIds : WF_vars(Poll(w))
    /\ SF_vars(DecayStart)
    /\ WF_vars(DecayTimer)
    /\ SF_vars(DecayClosed)
    /\ SF_vars(DecayTick)

\* the limiters the liveness claims are about: a finite ceiling, fixed window
InitFair == Init /\ ~gradualRecovery /\ limit <= MaxLimit

FairSpec == InitFair /\ [][Next]_vars /\ Fairness

\* M callers that each call Allow() once, concurrently, with the decay
\* goroutine started and no tick of it
AllowOnce(p) == op[p] = "none" /\ AllowCall(p)

NextAllow ==
    \/ \E p \in Callers : AllowOnce(p)
    \/ \E p \in Callers : AllowAcquire(p)
    \/ \E p \in Callers : AllowIncr(p)
    \/ DecayStart

SpecAllow == Init /\ [][NextAllow]_vars

\* ---------------------------------------------------------------- claims
\* the step in which caller p's Allow body ends (increment, unlock, return)
AllowReturns(p) == pc[p] = "incr" /\ pc'[p] = "idle"

\* the step in which caller p's Current returns
CurrentReturns(p) == pc[p] = "rlock" /\ pc'[p] = "idle"

\* the step in which the decay goroutine runs the body of its timer case
Ticks == dpc = "lock" /\ dpc' = "select"

\* caller p has returned from a call of method m
Returned(p, m) == pc[p] = "idle" /\ op[p] = m

\* C1: Allow() is one atomic test-and-increment: when its body ends with
\* current < limit it has added exactly 1 to current and returns true;
\* with current >= limit it returns false and leaves current, limit,
\* interval, the decay mode, the close signal and the read holders alone.
C1_AllowTestAndIncrement ==
    [][\A p \in Callers :
          AllowReturns(p) =>
              IF current < limit
              THEN current' = current + 1 /\ ret'[p] = TRUE
              ELSE /\ ret'[p] = FALSE
                   /\ UNCHANGED << current, config, done, readers >>]_vars

\* one Allow() was admitted and another rejected at the ceiling
C1_Witness ==
    \E p, q \in Callers :
        /\ Returned(p, "Allow") /\ ret[p]
        /\ Returned(q, "Allow") /\ ~ret[q]
        /\ current = limit

\* C2: in fixed-window mode current <= limit in every reachable state and
\* the admissions since the last decay tick never exceed limit.
C2_CeilingInvariant ==
    ~gradualRecovery => (current <= limit /\ admitted <= limit)

\* two Wait calls have both seen the last free slot and both gone on to
\* Allow(), after an earlier admission
C2_Witness ==
    /\ ~gradualRecovery
    /\ current + 1 = limit
    /\ admitted >= 1
    /\ \E p, q \in Callers :
          /\ p # q
          /\ op[p] = "Wait" /\ pc[p] = "lock"
          /\ op[q] = "Wait" /\ pc[q] = "lock"

\* every caller has called Allow() once and returned
AllAllowsDone == \A p \in Callers : Returned(p, "Allow")

\* C3: with limit = K, current = 0 and M > K concurrent Allow() calls and
\* no decay tick, exactly K calls return true, M - K return false and
\* current = K afterwards.
C3_ExactlyKAdmitted ==
    (AllAllowsDone /\ limit < NumCallers) =>
        /\ Cardinality({p \in Callers : ret[p]}) = limit
        /\ Cardinality({p \in Callers : ~ret[p]}) = NumCallers - limit
        /\ current = limit

\* M calls have all returned on a limiter with 0 < K < M
C3_Witness == AllAllowsDone /\ 0 < limit /\ limit < NumCallers

\* caller p is the only Wait call there has been, blocked in its select on
\* a limiter saturated at limit = 1, not cancelled, the limiter not closed,
\* and no other caller is in a call
SingleWaiter(p) ==
    /\ pc[p] = "select"
    /\ nWaits = 1
    /\ limit = 1
    /\ current = 1
    /\ ~ctxDone[p]
    /\ ~done
    /\ ~panicked
    /\ \A q \in Callers \ {p} : pc[q] = "idle"

\* C4 (as claimed): a single uncancelled Wait on a limiter saturated at
\* limit = 1 does not return true before a decay tick and, unless it is
\* cancelled, the limiter is closed or another caller steps in, eventually
\* returns true with current = 1.
C4_SingleWaiterAdmitted ==
    /\ [](\A p \in Callers : (Returned(p, "Wait") /\ ret[p]) => ~quiet[p])
    /\ \A p \in Callers :
          SingleWaiter(p)
              ~> \/ Returned(p, "Wait") /\ ret[p] /\ current = 1
                 \/ ctxDone[p]
                 \/ done
                 \/ panicked
                 \/ \E q \in Callers \ {p} : pc[q] # "idle"

\* C5 (as claimed): in gradual-recovery mode a tick takes exactly 1 from a
\* positive current and leaves current at 0 when it is 0.
C5_GradualFloor ==
    [][(gradualRecovery /\ Ticks) =>
           current' = (IF current > 0 THEN current - 1 ELSE 0)]_vars

\* C6: in fixed-window mode every tick sets current to 0; with limit > 0
\* the first Allow() body after a tick returns true and leaves current at
\* 1, and Current() returns the value of current.
C6_FixedWindowReset ==
    [][/\ (~gradualRecovery /\ Ticks) => current' = 0
       /\ \A p \in Callers :
             (~gradualRecovery /\ limit > 0 /\ fresh /\ AllowReturns(p)) =>
                 (ret'[p] = TRUE /\ current' = 1)
       /\ \A p \in Callers : CurrentReturns(p) => val'[p] = current]_vars

\* after a tick on a saturated fixed-window limiter one Allow() has
\* returned true and a Current() has read 1
C6_Witness ==
    /\ ~gradualRecovery
    /\ limit > 0
    /\ tickSat
    /\ ~fresh
    /\ admitted = 1
    /\ \E p, q \in Callers :
          /\ Returned(p, "Allow") /\ ret[p]
          /\ Returned(q, "Current") /\ val[q] = 1

\* Close() has been called while every caller is blocked in Wait's select
\* on a saturated limiter, no polling goroutine having seen capacity
AllBlockedAtClose ==
    /\ done
    /\ ~panicked
    /\ current >= limit
    /\ readers = {}
    /\ \A p \in Callers : pc[p] = "select" /\ ~allowCh[wid[p]]

\* C7 (as claimed): when NumCallers Wait calls are blocked on a saturated
\* limiter and Close() is called, each of them eventually returns false.
C7_CloseUnblocksWaiters ==
    \A p \in Callers :
        AllBlockedAtClose ~> ((Returned(p, "Wait") /\ ~ret[p]) \/ panicked)

\* C8 (as claimed): once Close() has been called, a Wait call that is
\* pending or is started afterwards returns false.
C8_WaitAfterCloseReturnsFalse ==
    \A p \in Callers :
        (done /\ pc[p] = "select")
            ~> ((Returned(p, "Wait") /\ ~ret[p]) \/ panicked)

\* while the limiter stays saturated (no tick since Wait was called) the
\* Wait call is in its select or has returned false, and current is not
\* changed
NeverClaims ==
    /\ [](\A p \in Callers :
            (op[p] = "Wait" /\ quiet[p]) =>
                /\ current >= limit
                /\ pc[p] \in {"select", "idle"}
                /\ pc[p] = "idle" => ~ret[p])
    /\ [][(\E p \in Callers : op[p] = "Wait" /\ quiet[p] /\ quiet'[p]) =>
             current' = current]_vars

\* C9: a Wait called on a saturated limiter that no tick relieves never
\* claims a slot: it does not enter Allow(), current stays as it is, its
\* result is false; and with its cancellation signal fired it returns.
C9_CancelledWaitNeverClaims ==
    /\ NeverClaims
    /\ \A p \in Callers :
          (pc[p] = "select" /\ ctxDone[p] /\ quiet[p])
              ~> ((Returned(p, "Wait") /\ ~ret[p]) \/ ~quiet[p] \/ panicked)

\* a Wait called with a fired cancellation signal on a saturated limiter
\* has returned false, with no tick since its call
C9_Witness ==
    \E p \in Callers :
        /\ Returned(p, "Wait")
        /\ quiet[p]
        /\ ctxDone[p]
        /\ ~ret[p]
        /\ ~done
        /\ current >= limit

\* C10 (as claimed): every invoked Allow() or Current() eventually returns
C10_AllowCurrentComplete ==
    \A p \in Callers :
        (pc[p] \in {"lock", "rlock"} /\ op[p] \in {"Allow", "Current"})
            ~> (pc[p] = "idle" \/ panicked)

\* C11 (as claimed): with limit = Infinite every Allow() returns true and
\* adds 1 to current, whatever the interleaving with callers and ticks
C11_InfiniteAlwaysAdmits ==
    [][\A p \in Callers :
          (limit = Infinite /\ op[p] = "Allow" /\ AllowReturns(p)) =>
              (ret'[p] = TRUE /\ current' = current + 1)]_vars

\* C12 (as claimed): a Close() on a closed limiter completes normally and
\* leaves the limiter as it was: closed, and not faulted
C12_SecondCloseHarmless ==
    [][(done /\ dpc # "start") => (done' /\ panicked' = panicked)]_vars

\* C13 (as claimed): a polling task that has left its loop, or is between
\* two checks, holds no read lock
C13_PollerHoldsNoLock ==
    \A w \in WaitIds :
        ppc[w] \in {"poll", "exit"} => Poller(w) \notin readers

\* a Wait call is in its select with both its cancellation signal and its
\* capacity-detected signal ready
BothReady(p) == pc[p] = "select" /\ ctxDone[p] /\ allowCh[wid[p]]

\* a Wait call returns: from its select, or from the Allow() it ended in
WaitReturns(p) == op[p] = "Wait" /\ pc[p] # "idle" /\ pc'[p] = "idle"

\* C14 (as claimed): a Wait call whose cancellation and capacity signals
\* are both ready returns one result, current grows by 1 exactly when the
\* result is true, and no deadlock follows: the call returns, and a decay
\* task or caller waiting for the lock afterwards gets it.
C14_RaceActsOnOne ==
    /\ [][\A p \in Callers :
             WaitReturns(p) => (ret'[p] <=> current' = current + 1)]_vars
    /\ \A p \in Callers :
          BothReady(p) ~> (Returned(p, "Wait") \/ panicked)
    /\ \A p \in Callers :
          BothReady(p)
              ~> \/ pc[p] = "idle" /\ dpc \in {"select", "exit"}
                 \/ panicked

\* the decay task changes current in this step
DecayChanges == dpc = "lock" /\ dpc' = "select" /\ current' # current

\* C15 (as claimed): after Close() the decay task eventually terminates,
\* and once it has observed the close signal it never changes current.
C15_DecayStopsAfterClose ==
    /\ done ~> (dpc = "exit" \/ panicked)
    /\ [][dpc = "exit" => (dpc' = "exit" /\ ~DecayChanges)]_vars

\* the Wait call that started polling task w has returned
Abandoned(w) == \A p \in Callers : wid[p] # w

\* C16 (as claimed): once the limiter is closed, the polling task of a
\* Wait call that has returned eventually terminates, saturated or not.
C16_AbandonedPollerStops ==
    \A w \in WaitIds :
        (done /\ ppc[w] = "poll" /\ Abandoned(w))
            ~> (ppc[w] = "exit" \/ panicked)

\* C17 (as claimed): in gradual-recovery mode with a positive finite limit
\* the decay task's pending timer runs for interval / limit, so that limit
\* ticks span one interval.
C17_GradualPeriod ==
    (gradualRecovery /\ limit \in 1 .. MaxLimit /\ dpc = "select") =>
        armed * limit = interval

\* C18 (as claimed): with gradual recovery and a limit of 0 or Infinite
\* the decay task does not fault and computes no negative period.
C18_NoMeaninglessPeriod ==
    (gradualRecovery /\ limit \in {0, Infinite} /\ ~done) =>
        (~panicked /\ subInterval >= 0)

C20_CloseFrame ==
    /\ [][(~done /\ done') => UNCHANGED << current, config >>]_vars
    /\ [][\A p \in Callers :
             (done /\ AllowReturns(p)) =>
                 IF current < limit
                 THEN current' = current + 1 /\ ret'[p] = TRUE
                 ELSE current' = current /\ ret'[p] = FALSE]_vars
    /\ [][dpc = "exit" => current' >= current]_vars

\* on a closed limiter that holds admissions and whose decay task has
\* returned, an Allow() is in its body and about to be admitted
C20_Witness ==
    \E p \in Callers :
        /\ done
        /\ dpc = "exit"
        /\ current > 0
        /\ op[p] = "Allow"
        /\ pc[p] = "incr"
        /\ allow[p]

====
